---- MODULE Spec2Model ----
(***************************************************************************)
(* State-machine model of src/llm_system.py: the retrying completion       *)
(* client (make_api_call), the answer sampler (question_answerer), the     *)
(* judge (supervisor_evaluate), the prompt mutator                         *)
(* (supervisor_improve_prompt) and the optimisation loop (main).           *)
(* Texts are sequences of one-character strings so that strip(), lower()   *)
(* and the regular expressions are computed, not assumed.                  *)
(***************************************************************************)
EXTENDS Integers, Sequences, FiniteSets, TLC

\* ---------------------------------------------------------------- bounds
\* Rounds R (50 in the source) and trials per round T (10 in the source).
NUM_ITERATIONS == 3
NUM_TRIALS == 2

\* Default of make_api_call's max_retries parameter.
max_retries == 3

\* ------------------------------------------------------------------ text
\* A missing message content (Python None); not a text.
None == <<"None">>

Whitespace == {" ", "\n"}

RECURSIVE LStrip(_)
LStrip(s) ==
  IF s # <<>> /\ Head(s) \in Whitespace THEN LStrip(Tail(s)) ELSE s

RECURSIVE RStrip(_)
RStrip(s) ==
  IF s # <<>> /\ s[Len(s)] \in Whitespace
  THEN RStrip(SubSeq(s, 1, Len(s) - 1)) ELSE s

\* str.strip()
Strip(s) == RStrip(LStrip(s))

LowerChar(c) ==
  CASE c = "C" -> "c"
    [] c = "I" -> "i"
    [] c = "T" -> "t"
    [] OTHER -> c

\* str.lower()
Lower(s) == [k \in 1..Len(s) |-> LowerChar(s[k])]

EndsWith(s, t) ==
  /\ Len(s) >= Len(t)
  /\ SubSeq(s, Len(s) - Len(t) + 1, Len(s)) = t

\* Positions p such that t occurs in s starting at p.
Occurrences(s, t) ==
  { p \in 1..(Len(s) - Len(t) + 1) : SubSeq(s, p, p + Len(t) - 1) = t }

Min(S) == CHOOSE x \in S : \A y \in S : x <= y

\* ------------------------------------------------------------- fractions
\* A float produced by correct_count / len(answers) is represented by the
\* reduced fraction it rounds; for the small integers involved two such
\* floats are equal exactly when the reduced fractions are.
RECURSIVE GCD(_, _)
GCD(a, b) == IF b = 0 THEN a ELSE GCD(b, a % b)

Frac(n, d) == [num |-> n \div GCD(n, d), den |-> d \div GCD(n, d)]

\* The literal 0.0
Zero == [num |-> 0, den |-> 1]

\* The value of `accuracy` before its first assignment; not a number.
Unset == [num |-> 0, den |-> 0]

\* ------------------------------------------------------- judge (parsing)
Punctuation == {".", "!", "?"}

RECURSIVE DropPunctuationRun(_)
DropPunctuationRun(s) ==
  IF s # <<>> /\ s[Len(s)] \in Punctuation
  THEN DropPunctuationRun(SubSeq(s, 1, Len(s) - 1)) ELSE s

\* re.sub(r'[.!?]+$', '', s): '$' matches at the end of the text and also
\* just before a newline that ends the text.
StripTrailingPunctuation(s) ==
  IF s # <<>> /\ s[Len(s)] \in Punctuation THEN DropPunctuationRun(s)
  ELSE IF Len(s) >= 2 /\ s[Len(s)] = "\n" /\ s[Len(s) - 1] \in Punctuation
       THEN DropPunctuationRun(SubSeq(s, 1, Len(s) - 1)) \o <<"\n">>
       ELSE s

TokCorrect == <<"c", "o", "r", "r", "e", "c", "t">>
TokIncorrect == <<"i", "n">> \o TokCorrect

\* re.search(r'(correct|incorrect)$', s): the leftmost match wins, so a
\* text ending in "incorrect" yields "incorrect"; '$' as above.
TrailingToken(s) ==
  LET body == IF s # <<>> /\ s[Len(s)] = "\n"
              THEN SubSeq(s, 1, Len(s) - 1) ELSE s
  IN IF EndsWith(body, TokIncorrect) THEN "incorrect"
     ELSE IF EndsWith(body, TokCorrect) THEN "correct"
     ELSE "nomatch"

\* Lines 83-89: the verdict extracted from a judge response.
Judgment(content) ==
  LET full_judgment == Strip(content)
      cleaned_judgment == StripTrailingPunctuation(Strip(Lower(full_judgment)))
      match == TrailingToken(cleaned_judgment)
  IN IF match # "nomatch" THEN match ELSE "incorrect"

\* ----------------------------------------------------- mutator (parsing)
Marker == <<"N", "E", "W", " ", "P", "R", "O", "M", "P", "T", ":">>

\* Variant of ExtractPrompt: the last marker is taken instead of the first.
ExtractAfterLastMarker(content) ==
  LET full_response == Strip(content)
      occ == Occurrences(full_response, Marker)
      last == CHOOSE q \in occ : \A r \in occ : r <= q
  IN IF occ # {}
     THEN Strip(SubSeq(full_response, last + Len(Marker),
                       Len(full_response)))
     ELSE Strip(full_response)

\* Lines 122-127: re.search(r'NEW PROMPT:\s*(.*)', ..., re.DOTALL).
ExtractPrompt(content) ==
  LET full_response == Strip(content)
      occ == Occurrences(full_response, Marker)
  IN IF occ # {}
     THEN Strip(LStrip(SubSeq(full_response, Min(occ) + Len(Marker),
                              Len(full_response))))
     ELSE Strip(full_response)

\* ------------------------------------------- the completion service stub
\* Contents the service may return to each caller; None is a response whose
\* message carries no text.
AnswerContents == { <<" ">>, <<" ", "4", "\n">> }

JudgeContents ==
  { <<"i", "s", " ">> \o TokCorrect \o <<".">>,
    <<"C", "o", "r", "r", "e", "c", "t", "\n", "!", "?">>,
    <<"i", "s", " ">> \o TokIncorrect,
    TokCorrect \o <<" ", "?">>,
    <<"n", "o">> }

\* Line 135: "Answer the following question."
InitialPrompt ==
  <<"A", "n", "s", "w", "e", "r", " ", "t", "h", "e", " ",
    "f", "o", "l", "l", "o", "w", "i", "n", "g", " ",
    "q", "u", "e", "s", "t", "i", "o", "n", ".">>

\* A response with two markers, one whose first marker is not followed by
\* a space, and one without marker that repeats the initial prompt.
MutatorContents ==
  { <<"o", "k", " ">> \o Marker \o <<" ", "A", " ">> \o Marker
                     \o <<" ", "B", " ">>,
    Marker \o <<"A", " ">> \o Marker \o <<" ", "B">>,
    <<" ">> \o InitialPrompt \o <<"\n">> }

\* The three parsers tabulated over the contents the stub can return, so that
\* each text is parsed once.
AnswerOf == [c \in AnswerContents |-> Strip(c)]
JudgmentOf == [c \in JudgeContents |-> Judgment(c)]
NewPromptOf == [c \in MutatorContents |-> ExtractPrompt(c)]

Contents(who) ==
  CASE who = "question_answerer" -> AnswerContents \cup {None}
    [] who = "supervisor_evaluate" -> JudgeContents \cup {None}
    [] who = "supervisor_improve_prompt" -> MutatorContents \cup {None}

\* Exceptions client.chat.completions.create may raise, by their str().
Errors == {"Connection error.", "ReadError", "Unauthorized"}

\* Line 46's exception.
RetriesExhausted == "Failed after 3 retries due to connection issues."

\* Raised at a call site that reads .strip() of a missing content.
AttributeError == "'NoneType' object has no attribute 'strip'"

\* Variant of IsConnectionError: every exception is treated as retryable.
IsAnyError(e) == TRUE

\* Line 40: "Connection" in str(e) or "ReadError" in str(e)
IsConnectionError(e) == e \in {"Connection error.", "ReadError"}

\* Variant of MayRetry: one attempt fewer is retried.
MayRetryOnce(attempt) == attempt < max_retries - 2

\* Variant of MayRetry: the last attempt is retried as well.
MayRetryAlways(attempt) == attempt < max_retries

\* Line 41: attempt < max_retries - 1
MayRetry(attempt) == attempt < max_retries - 1

\* Variant of Catches: the handlers catch connection errors only.
CatchesConnectionOnly(e) == e \in {"Connection error.", "ReadError"}

\* Lines 149, 157, 167: `except Exception` catches every exception modelled.
Catches(e) == e \in Errors \cup {RetriesExhausted, AttributeError}

\* ----------------------------------------------------------------- state
VARIABLES
  pc,              \* position of main
  iteration,       \* loop variable of line 139
  trial,           \* loop variable of line 145
  current_prompt,
  prompt_history,
  answers,
  accuracy,
  i,               \* answers already visited by supervisor_evaluate
  correct_count,
  call,            \* the make_api_call in progress (NoCall between calls)
  result,          \* its outcome, until the caller has handled it
  phaseLog,        \* history: Sample / Evaluate / Mutate phases entered
  issued,          \* history: trials of this round whose call was issued
  failedTrials,    \* history: trials of this round whose call site raised
  verdicts,        \* history: per visited answer, skipped/correct/incorrect
  judgeCalls,      \* history: judge calls issued in this evaluation
  evalFailed,      \* history: this round's evaluation raised
  trialPrompts,    \* history: prompts passed to this round's trials
  rounds,          \* history: per evaluated round, prompts and accuracy
  mutationFailed,  \* history: the mutation before this sampling raised
  completionCalls  \* history: make_api_call invocations so far

vars == <<pc, iteration, trial, current_prompt, prompt_history, answers,
          accuracy, i, correct_count, call, result, phaseLog, issued,
          failedTrials, verdicts, judgeCalls, evalFailed, trialPrompts,
          rounds, mutationFailed, completionCalls>>

NoCall == [who |-> "none", attempt |-> 0, sleeps |-> 0, outcomes |-> <<>>]
Pending == [kind |-> "pending"]

Init ==
  /\ pc = "for_iteration"
  /\ iteration = 0
  /\ trial = 0
  /\ current_prompt = InitialPrompt
  /\ prompt_history = <<>>
  /\ answers = <<>>
  /\ accuracy = Unset
  /\ i = 0
  /\ correct_count = 0
  /\ call = NoCall
  /\ result = Pending
  /\ phaseLog = <<>>
  /\ issued = {}
  /\ failedTrials = {}
  /\ verdicts = <<>>
  /\ judgeCalls = 0
  /\ evalFailed = FALSE
  /\ trialPrompts = {}
  /\ rounds = <<>>
  /\ mutationFailed = FALSE
  /\ completionCalls = 0

NewCall(who) == [who |-> who, attempt |-> 0, sleeps |-> 0, outcomes |-> <<>>]

\* ------------------------------------------------------------------ main
\* Lines 139-144 and 173: loop head of main. The locals of the previous
\* call of supervisor_evaluate no longer exist.
ForIteration ==
  /\ pc = "for_iteration"
  /\ IF iteration < NUM_ITERATIONS
     THEN /\ answers' = <<>>
          /\ trial' = 0
          /\ issued' = {}
          /\ failedTrials' = {}
          /\ trialPrompts' = {}
          /\ i' = 0
          /\ correct_count' = 0
          /\ verdicts' = <<>>
          /\ judgeCalls' = 0
          /\ evalFailed' = FALSE
          /\ phaseLog' = Append(phaseLog, "Sample")
          /\ pc' = "for_trial"
     ELSE /\ pc' = "done"
          /\ UNCHANGED <<answers, trial, issued, failedTrials, trialPrompts,
                         i, correct_count, verdicts, judgeCalls, evalFailed,
                         phaseLog>>
  /\ UNCHANGED <<iteration, current_prompt, prompt_history, accuracy, call,
                 result, rounds, mutationFailed, completionCalls>>

\* Variant of InTrialRange: one trial too many.
InTrialRangeInclusive(t) == t <= NUM_TRIALS

\* Line 145: trial in range(NUM_TRIALS)
InTrialRange(t) == t < NUM_TRIALS

\* Lines 145-147 (issue the next trial) and 154-155, 63 (enter evaluation).
ForTrial ==
  /\ pc = "for_trial"
  /\ IF InTrialRange(trial)
     THEN /\ call' = NewCall("question_answerer")
          /\ result' = Pending
          /\ issued' = issued \cup {trial + 1}
          /\ trialPrompts' = trialPrompts \cup {current_prompt}
          /\ completionCalls' = completionCalls + 1
          /\ pc' = "make_api_call"
          /\ UNCHANGED <<i, correct_count, verdicts, judgeCalls, evalFailed,
                         mutationFailed, phaseLog>>
     ELSE /\ correct_count' = 0
          /\ i' = 0
          /\ verdicts' = <<>>
          /\ judgeCalls' = 0
          /\ evalFailed' = FALSE
          /\ mutationFailed' = FALSE
          /\ phaseLog' = Append(phaseLog, "Evaluate")
          /\ pc' = "for_answer"
          /\ UNCHANGED <<call, result, issued, trialPrompts,
                         completionCalls>>
  /\ UNCHANGED <<rounds,
                 iteration, trial, current_prompt, prompt_history, answers,
                 accuracy, failedTrials>>

\* ---------------------------------------------------------- make_api_call
\* Lines 32-46: one pass of the retry loop; the outcome of the outbound
\* call is chosen by the service.
Attempt ==
  /\ pc = "make_api_call"
  /\ IF call.attempt >= max_retries
     THEN /\ result' = [kind |-> "raised", error |-> RetriesExhausted]
          /\ pc' = "return"
          /\ UNCHANGED call
     ELSE \E ok \in BOOLEAN, c \in Contents(call.who), e \in Errors :
            IF ok
            THEN /\ call' = [call EXCEPT !.outcomes = Append(@, "ok")]
                 /\ result' = [kind |-> "returned", content |-> c]
                 /\ pc' = "return"
            ELSE /\ call' = [call EXCEPT !.outcomes = Append(@, e)]
                 /\ IF IsConnectionError(e) /\ MayRetry(call.attempt)
                    THEN /\ pc' = "sleep"
                         /\ UNCHANGED result
                    ELSE /\ result' = [kind |-> "raised", error |-> e]
                         /\ pc' = "return"
  /\ UNCHANGED <<issued, trialPrompts, rounds, mutationFailed, completionCalls,
                 iteration, trial, current_prompt, prompt_history, answers,
                 accuracy, i, correct_count, phaseLog, failedTrials,
                 verdicts, judgeCalls, evalFailed>>

\* Lines 43-44: time.sleep(2); continue.
Sleep ==
  /\ pc = "sleep"
  /\ call' = [call EXCEPT !.sleeps = @ + 1, !.attempt = @ + 1]
  /\ pc' = "make_api_call"
  /\ UNCHANGED <<issued, trialPrompts, rounds, mutationFailed, completionCalls,
                 iteration, trial, current_prompt, prompt_history, answers,
                 accuracy, i, correct_count, result, phaseLog, failedTrials,
                 verdicts, judgeCalls, evalFailed>>

\* What the call site sees: the exception raised by make_api_call, or the
\* AttributeError of reading a missing content, or "none".
Raised ==
  IF result.kind = "raised" THEN result.error
  ELSE IF result.kind = "returned" /\ result.content = None
       THEN AttributeError
       ELSE "none"

\* ------------------------------------------------------------ the sampler
\* Variant of WithPlaceholder: the failed trial is omitted from the batch.
WithoutPlaceholder(as) == as

\* Line 151: the placeholder appended for a failed trial.
WithPlaceholder(as) == Append(as, <<>>)

\* Lines 56, 147-148: the trial's answer is the stripped content.
TrialReturn ==
  /\ pc = "return"
  /\ call.who = "question_answerer"
  /\ Raised = "none"
  /\ answers' = Append(answers, AnswerOf[result.content])
  /\ trial' = trial + 1
  /\ pc' = "for_trial"
  /\ call' = NoCall
  /\ result' = Pending
  /\ UNCHANGED <<issued, trialPrompts, rounds, mutationFailed, completionCalls,
                 iteration, current_prompt, prompt_history, accuracy, i,
                 correct_count, phaseLog, failedTrials,
                 verdicts, judgeCalls, evalFailed>>

\* Lines 149-151: a failed trial leaves an empty answer.
TrialExcept ==
  /\ pc = "return"
  /\ call.who = "question_answerer"
  /\ Raised # "none"
  /\ IF Catches(Raised)
     THEN /\ answers' = WithPlaceholder(answers)
          /\ failedTrials' = failedTrials \cup {trial + 1}
          /\ trial' = trial + 1
          /\ pc' = "for_trial"
     ELSE /\ pc' = "crashed"
          /\ UNCHANGED <<answers, failedTrials, trial>>
  /\ call' = NoCall
  /\ result' = Pending
  /\ UNCHANGED <<issued, trialPrompts, rounds, mutationFailed, completionCalls,
                 iteration, current_prompt, prompt_history, accuracy, i,
                 correct_count, phaseLog, verdicts,
                 judgeCalls, evalFailed>>

\* -------------------------------------------------------------- the judge
\* Variant of IsEmptyAnswer: the empty-answer shortcut is missing.
NeverEmptyAnswer(answer) == FALSE

\* Line 65: `not answer`
IsEmptyAnswer(answer) == answer = <<>>

\* Variant of Accuracy: the denominator counts the judged answers only.
AccuracyOverJudged(count, as) ==
  LET judged == Cardinality({k \in 1..Len(as) : as[k] # <<>>})
  IN Frac(count, IF judged = 0 THEN 1 ELSE judged)

\* Line 94: correct_count / len(answers)
Accuracy(count, as) == Frac(count, Len(as))

\* Variant of AccuracyOnFailure: the verdicts counted so far are kept.
PartialAccuracy(count, as) == Frac(count, Len(as))

\* Line 159: accuracy = 0.0
AccuracyOnFailure(count, as) == Zero

\* The fraction of "correct" among the verdicts of a batch.
Judged(vs) ==
  Frac(Cardinality({k \in 1..Len(vs) : vs[k] = "correct"}), Len(vs))

\* Lines 64-82 and 94: visit the next answer (skip it when empty, otherwise
\* issue its judge call), or return the accuracy after the last one.
ForAnswer ==
  /\ pc = "for_answer"
  /\ IF i < Len(answers)
     THEN IF IsEmptyAnswer(answers[i + 1])
          THEN /\ i' = i + 1
               /\ verdicts' = Append(verdicts, "skipped")
               /\ UNCHANGED <<pc, call, result, judgeCalls, accuracy,
                              rounds, completionCalls>>
          ELSE /\ call' = NewCall("supervisor_evaluate")
               /\ result' = Pending
               /\ judgeCalls' = judgeCalls + 1
               /\ completionCalls' = completionCalls + 1
               /\ pc' = "make_api_call"
               /\ UNCHANGED <<i, verdicts, accuracy, rounds>>
     ELSE /\ accuracy' = Accuracy(correct_count, answers)
          /\ rounds' = Append(rounds, [prompts |-> trialPrompts,
                                       accuracy |-> Judged(verdicts)])
          /\ pc' = "if_not_last"
          /\ UNCHANGED <<i, verdicts, call, result, judgeCalls,
                         completionCalls>>
  /\ UNCHANGED <<issued, trialPrompts, mutationFailed,
                 iteration, trial, current_prompt, prompt_history, answers,
                 correct_count, phaseLog, failedTrials, evalFailed>>

\* Lines 83-93: parse the verdict and count it.
JudgeReturn ==
  /\ pc = "return"
  /\ call.who = "supervisor_evaluate"
  /\ Raised = "none"
  /\ LET judgment == JudgmentOf[result.content]
     IN /\ correct_count' =
             IF judgment = "correct" THEN correct_count + 1 ELSE correct_count
        /\ verdicts' = Append(verdicts, judgment)
  /\ i' = i + 1
  /\ pc' = "for_answer"
  /\ call' = NoCall
  /\ result' = Pending
  /\ UNCHANGED <<issued, trialPrompts, rounds, mutationFailed, completionCalls,
                 iteration, trial, current_prompt, prompt_history, answers,
                 accuracy, phaseLog, failedTrials, judgeCalls,
                 evalFailed>>

\* Lines 157-159: an exception out of supervisor_evaluate.
EvalExcept ==
  /\ pc = "return"
  /\ call.who = "supervisor_evaluate"
  /\ Raised # "none"
  /\ IF Catches(Raised)
     THEN /\ accuracy' = AccuracyOnFailure(correct_count, answers)
          /\ evalFailed' = TRUE
          /\ rounds' = Append(rounds, [prompts |-> trialPrompts,
                                       accuracy |-> Zero])
          /\ pc' = "if_not_last"
     ELSE /\ pc' = "crashed"
          /\ UNCHANGED <<accuracy, evalFailed, rounds>>
  /\ call' = NoCall
  /\ result' = Pending
  /\ UNCHANGED <<issued, trialPrompts, mutationFailed, completionCalls,
                 iteration, trial, current_prompt, prompt_history, answers,
                 i, correct_count, phaseLog, failedTrials,
                 verdicts, judgeCalls>>

\* ------------------------------------------------------------ the mutator
\* Variant of NotLastIteration: the last two rounds are not recorded.
NotLastIterationEarly(it) == it < NUM_ITERATIONS - 2

\* Variant of NotLastIteration: the mutator also runs after the last round.
NotLastIterationInclusive(it) == it <= NUM_ITERATIONS - 1

\* Line 162: iteration < NUM_ITERATIONS - 1
NotLastIteration(it) == it < NUM_ITERATIONS - 1

\* Variant of Record: the new record overwrites the last one.
RecordOverLast(h, p, a) ==
  IF h = <<>> THEN <<<<p, a>>>> ELSE [h EXCEPT ![Len(h)] = <<p, a>>]

\* Variant of Record: the new record is put first.
RecordFirst(h, p, a) == <<<<p, a>>>> \o h

\* Variant of Record: the round is not recorded.
RecordNothing(h, p, a) == h

\* Line 164: prompt_history.append((current_prompt, accuracy))
Record(h, p, a) == Append(h, <<p, a>>)

\* Variant of PromptAfterFailure: fall back to the initial prompt.
PromptReset(p) == InitialPrompt

\* Variant of PromptAfterFailure: the prompt is lost.
PromptLost(p) == <<>>

\* Lines 165, 167-169: the assignment of line 165 did not happen.
PromptAfterFailure(p) == p

\* Lines 162-165, 170-171: record the round and invoke the mutator, unless
\* this is the last iteration.
IfNotLast ==
  /\ pc = "if_not_last"
  /\ IF NotLastIteration(iteration)
     THEN /\ prompt_history' = Record(prompt_history, current_prompt, accuracy)
          /\ call' = NewCall("supervisor_improve_prompt")
          /\ result' = Pending
          /\ phaseLog' = Append(phaseLog, "Mutate")
          /\ completionCalls' = completionCalls + 1
          /\ pc' = "make_api_call"
          /\ UNCHANGED iteration
     ELSE /\ iteration' = iteration + 1
          /\ pc' = "for_iteration"
          /\ UNCHANGED <<prompt_history, call, result, phaseLog,
                         completionCalls>>
  /\ UNCHANGED <<issued, trialPrompts, rounds, mutationFailed,
                 trial, current_prompt, answers, accuracy, i, correct_count,
                 failedTrials, verdicts, judgeCalls, evalFailed>>

\* Lines 122-129, 165-166: the extracted prompt replaces the current one.
ImproveReturn ==
  /\ pc = "return"
  /\ call.who = "supervisor_improve_prompt"
  /\ Raised = "none"
  /\ current_prompt' = NewPromptOf[result.content]
  /\ mutationFailed' = FALSE
  /\ iteration' = iteration + 1
  /\ pc' = "for_iteration"
  /\ call' = NoCall
  /\ result' = Pending
  /\ UNCHANGED <<issued, trialPrompts, rounds, completionCalls,
                 trial, prompt_history, answers, accuracy, i, correct_count,
                 phaseLog, failedTrials, verdicts, judgeCalls,
                 evalFailed>>

\* Lines 167-169: keep the current prompt when the improvement raised.
ImproveExcept ==
  /\ pc = "return"
  /\ call.who = "supervisor_improve_prompt"
  /\ Raised # "none"
  /\ IF Catches(Raised)
     THEN /\ current_prompt' = PromptAfterFailure(current_prompt)
          /\ mutationFailed' = TRUE
          /\ iteration' = iteration + 1
          /\ pc' = "for_iteration"
     ELSE /\ pc' = "crashed"
          /\ UNCHANGED <<iteration, current_prompt, mutationFailed>>
  /\ call' = NoCall
  /\ result' = Pending
  /\ UNCHANGED <<issued, trialPrompts, rounds, completionCalls,
                 trial, prompt_history, answers, accuracy, i,
                 correct_count, phaseLog, failedTrials,
                 verdicts, judgeCalls, evalFailed>>

\* --------------------------------------------------------- specifications
Next ==
  \/ ForIteration
  \/ ForTrial
  \/ Attempt
  \/ Sleep
  \/ TrialReturn
  \/ TrialExcept
  \/ ForAnswer
  \/ JudgeReturn
  \/ EvalExcept
  \/ IfNotLast
  \/ ImproveReturn
  \/ ImproveExcept

Spec == Init /\ [][Next]_vars

\* Every outbound call eventually returns or raises, sleeps end, and the
\* single thread of control keeps running.
FairSpec == Spec /\ WF_vars(Next)

\* ------------------------------------------------------------ properties
\* The stub's errors whose text names a connection failure.
ConnectionErrors == {"Connection error.", "ReadError"}

Last(q) == q[Len(q)]

Count(q, x) == Cardinality({k \in 1..Len(q) : q[k] = x})

\* The current round's answers have been handed to supervisor_evaluate.
Sampled == phaseLog # <<>> /\ Last(phaseLog) \in {"Evaluate", "Mutate"}

\* C1: the batch handed to evaluation has exactly NUM_TRIALS answers
\* whatever trials failed; a failed trial t left the empty answer at index
\* t, and every trial was still issued.
BatchHasTrialCountAnswers ==
  /\ \A t \in failedTrials : t <= Len(answers) /\ answers[t] = <<>>
  /\ Sampled => /\ Len(answers) = NUM_TRIALS
                /\ issued = 1..NUM_TRIALS

\* The first trial failed, a later one succeeded with a non-empty answer,
\* and the batch is being evaluated.
FailedTrialThenAnswer ==
  /\ pc = "for_answer"
  /\ 1 \in failedTrials
  /\ answers[NUM_TRIALS] # <<>>

\* C2: at the end of round k, 1 <= k < R, the history has k records,
\* whatever failed in rounds 1..k.
HistoryLengthIsRound ==
  \A k \in 1..(NUM_ITERATIONS - 1) :
    (pc = "for_iteration" /\ iteration = k) => Len(prompt_history) = k

\* Round R-1 ended after a failed trial, a failed evaluation and a failed
\* mutation.
RoundEndedAfterFailures ==
  /\ pc = "for_iteration"
  /\ iteration = NUM_ITERATIONS - 1
  /\ failedTrials # {}
  /\ evalFailed
  /\ mutationFailed

\* Sample, Evaluate, Mutate, ..., Sample, Evaluate: R-1 full rounds and a
\* last round without mutation.
ExpectedPhase(k) ==
  CASE k % 3 = 1 -> "Sample"
    [] k % 3 = 2 -> "Evaluate"
    [] OTHER -> "Mutate"

\* C3: the phases entered so far are always a prefix of
\* (Sample, Evaluate, Mutate) x (R-1), Sample, Evaluate, and a finished run
\* has entered all of them: R samplings, R evaluations, R-1 mutations.
PhasesInOrder ==
  /\ Len(phaseLog) <= 3 * NUM_ITERATIONS - 1
  /\ \A k \in 1..Len(phaseLog) : phaseLog[k] = ExpectedPhase(k)
  /\ pc = "done" =>
       /\ Count(phaseLog, "Sample") = NUM_ITERATIONS
       /\ Count(phaseLog, "Evaluate") = NUM_ITERATIONS
       /\ Count(phaseLog, "Mutate") = NUM_ITERATIONS - 1

\* A finished run whose last round had a failed trial and a failed
\* evaluation.
FinishedDespiteFailures ==
  /\ pc = "done"
  /\ failedTrials # {}
  /\ evalFailed

\* C4: when every completion call eventually returns or raises, the loop
\* reaches its terminal state, with all R rounds sampled and evaluated,
\* whatever calls failed.
Terminates ==
  <>(/\ pc = "done"
     /\ Count(phaseLog, "Sample") = NUM_ITERATIONS
     /\ Count(phaseLog, "Evaluate") = NUM_ITERATIONS)

\* A finished run in whose last round every trial failed.
FinishedAfterAllTrialsFailed ==
  /\ pc = "done"
  /\ iteration = NUM_ITERATIONS
  /\ failedTrials = 1..NUM_TRIALS

\* All attempts made so far by the current call failed with connection
\* errors, the last one possibly excepted.
OnlyConnectionErrorsBeforeLast ==
  \A k \in 1..(Len(call.outcomes) - 1) : call.outcomes[k] \in ConnectionErrors

\* C5: a call whose max_retries attempts all failed with connection errors
\* raises a failure that is none of those connection errors.
ExhaustionRaisesDistinctFailure ==
  (/\ Len(call.outcomes) = max_retries
   /\ \A k \in 1..max_retries : call.outcomes[k] \in ConnectionErrors)
  => /\ result.kind = "raised"
     /\ result.error \notin ConnectionErrors

\* C6: a non-connection error of attempt k ends the call there: it is the
\* last attempt, it is the error raised to the caller, and only the k-1
\* sleeps between the earlier attempts were slept.
OtherErrorPropagatesAtOnce ==
  \A k \in 1..Len(call.outcomes) :
    call.outcomes[k] \in Errors \ ConnectionErrors =>
      /\ k = Len(call.outcomes)
      /\ result = [kind |-> "raised", error |-> call.outcomes[k]]
      /\ call.sleeps = k - 1
      /\ pc \notin {"make_api_call", "sleep"}

\* A call that was refused on its second attempt, after one connection
\* error.
RefusedOnSecondAttempt ==
  /\ pc = "return"
  /\ call.outcomes = <<"ReadError", "Unauthorized">>

\* C7: while only connection errors have occurred and the budget is not
\* spent, no error is propagated; when attempt k+1 then succeeds the call
\* returns, after k+1 attempts and k sleeps.
SucceedsAfterConnectionErrors ==
  LET n == Len(call.outcomes)
  IN (n >= 1 /\ OnlyConnectionErrorsBeforeLast) =>
       /\ call.outcomes[n] = "ok" =>
            /\ result.kind = "returned"
            /\ n <= max_retries
            /\ call.attempt = n - 1
            /\ call.sleeps = n - 1
       /\ (call.outcomes[n] \in ConnectionErrors /\ n < max_retries) =>
            result.kind = "pending"

\* Two connection errors, then a successful third attempt.
ReturnedAfterTwoSleeps ==
  /\ pc = "return"
  /\ call.outcomes = <<"Connection error.", "ReadError", "ok">>
  /\ result.kind = "returned"
  /\ call.sleeps = 2

NonEmptyCount(q) == Cardinality({k \in 1..Len(q) : q[k] # <<>>})

\* supervisor_evaluate has returned an accuracy for the current batch.
EvalDone ==
  /\ Sampled
  /\ ~evalFailed
  /\ pc # "for_answer"
  /\ Len(verdicts) = Len(answers)

\* C8: an answer is skipped (no judge call, not counted correct) exactly
\* when it is empty; an evaluation that completes has issued one judge call
\* per non-empty answer, and an all-empty batch scores 0 with no judge call.
EmptyAnswersAreNotJudged ==
  Sampled =>
    /\ \A k \in 1..Len(verdicts) :
         (answers[k] = <<>>) <=> (verdicts[k] = "skipped")
    /\ correct_count = Count(verdicts, "correct")
    /\ judgeCalls <= NonEmptyCount(answers)
    /\ EvalDone =>
         /\ judgeCalls = NonEmptyCount(answers)
         /\ NonEmptyCount(answers) = 0 => accuracy = Zero

\* A completed evaluation of a batch whose first answer is empty and whose
\* other answers were judged.
EvaluatedWithEmptyAnswer ==
  /\ EvalDone
  /\ answers[1] = <<>>
  /\ judgeCalls = NUM_TRIALS - 1

InUnitInterval(a) == a.den > 0 /\ 0 <= a.num /\ a.num <= a.den

\* C9: every accuracy of a round and of the history lies in [0, 1], and
\* the accuracy returned by an evaluation is exactly the number of answers
\* judged correct over the number of answers of the batch.
AccuracyIsCorrectFraction ==
  /\ accuracy # Unset => InUnitInterval(accuracy)
  /\ \A k \in 1..Len(prompt_history) : InUnitInterval(prompt_history[k][2])
  /\ EvalDone =>
       accuracy.num * Len(answers) = Count(verdicts, "correct") * accuracy.den

\* A completed evaluation with one answer judged correct and an empty
\* answer in the batch.
EvaluatedOneCorrectOneEmpty ==
  /\ EvalDone
  /\ Count(verdicts, "correct") = 1
  /\ Count(verdicts, "skipped") = 1

\* C10: an evaluation that raises gives the round the accuracy 0.0, and
\* the round goes on: a non-final round appends (prompt, 0.0) and invokes
\* the mutator, the final round ends the loop.
FailedEvaluationScoresZero ==
  [][/\ (pc = "return" /\ call.who = "supervisor_evaluate"
           /\ Raised # "none") =>
          (accuracy' = Zero /\ evalFailed' /\ pc' = "if_not_last")
     /\ (pc = "if_not_last" /\ evalFailed) =>
          /\ accuracy = Zero
          /\ iteration < NUM_ITERATIONS - 1 =>
               /\ prompt_history' =
                    Append(prompt_history, <<current_prompt, Zero>>)
               /\ call'.who = "supervisor_improve_prompt"
               /\ pc' = "make_api_call"
          /\ iteration = NUM_ITERATIONS - 1 => pc' = "for_iteration"]_vars

\* The mutator is being called after an evaluation that failed with an
\* answer already judged correct.
MutatingAfterFailedEvaluation ==
  /\ pc = "make_api_call"
  /\ call.who = "supervisor_improve_prompt"
  /\ evalFailed
  /\ correct_count > 0
  /\ Last(prompt_history) = <<current_prompt, Zero>>

\* The mutator's call is in progress or its outcome is being handled.
InMutation ==
  /\ pc \in {"make_api_call", "sleep", "return"}
  /\ call.who = "supervisor_improve_prompt"

\* C11: a mutation that raises in round k < R is caught: the loop goes on
\* to round k+1 with the current prompt unchanged, and every trial of round
\* k+1 is sampled under the prompt of round k.
FailedMutationKeepsPrompt ==
  /\ [][(InMutation /\ pc = "return" /\ Raised # "none") =>
          /\ pc' = "for_iteration"
          /\ iteration' = iteration + 1
          /\ iteration' < NUM_ITERATIONS
          /\ current_prompt' = current_prompt]_vars
  /\ [](mutationFailed =>
          /\ Len(rounds) = iteration
          /\ rounds[iteration].prompts = {current_prompt}
          /\ trialPrompts \subseteq rounds[iteration].prompts)

\* After a failed mutation of an improved prompt, all trials of the next
\* round have been sampled.
ResampledAfterFailedMutation ==
  /\ pc = "for_trial"
  /\ trial = NUM_TRIALS
  /\ mutationFailed
  /\ current_prompt # InitialPrompt
  /\ trialPrompts = {current_prompt}

\* C12: every step leaves the history unchanged or extends it by one record
\* at its end, and no step of the mutator's call changes it.
HistoryIsAppendOnly ==
  [][/\ \/ prompt_history' = prompt_history
        \/ /\ Len(prompt_history') = Len(prompt_history) + 1
           /\ SubSeq(prompt_history', 1, Len(prompt_history)) = prompt_history
     /\ InMutation => prompt_history' = prompt_history]_vars

\* A history of two different records, while the mutator is called.
TwoRecordsWhileMutating ==
  /\ InMutation
  /\ Len(prompt_history) = 2
  /\ prompt_history[1] # prompt_history[2]

\* t is x without its leading and trailing whitespace.
IsTrimOf(t, x) ==
  \E lo \in 0..Len(x), hi \in 0..Len(x) :
    /\ t = SubSeq(x, lo + 1, hi)
    /\ \A k \in 1..lo : x[k] \in Whitespace
    /\ \A k \in (hi + 1)..Len(x) : x[k] \in Whitespace
    /\ t # <<>> => (t[1] \notin Whitespace /\ t[Len(t)] \notin Whitespace)

\* t is what follows the first occurrence of marker m in x, trimmed, or x
\* trimmed when m does not occur in x.
IsPromptAfter(m, t, x) ==
  LET at(p) == SubSeq(x, p, p + Len(m) - 1) = m
      starts == 1..(Len(x) - Len(m) + 1)
  IN IF \E p \in starts : at(p)
     THEN \E p \in starts :
            /\ at(p)
            /\ \A q \in 1..(p - 1) : ~at(q)
            /\ IsTrimOf(t, SubSeq(x, p + Len(m), Len(x)))
     ELSE IsTrimOf(t, x)

\* The marker as the claim spells it, with its trailing space.
SpacedMarker == <<"N", "E", "W", " ", "P", "R", "O", "M", "P", "T", ":", " ">>

\* The marker the amended claim uses.
BareMarker == <<"N", "E", "W", " ", "P", "R", "O", "M", "P", "T", ":">>

\* The mutator has returned a response that carries a text.
MutatorAnswered == InMutation /\ pc = "return" /\ Raised = "none"

JudgeAnswered ==
  /\ pc = "return"
  /\ call.who = "supervisor_evaluate"
  /\ Raised = "none"

\* The text ends with the token "correct" that is not the tail of
\* "incorrect".
EndsWithCorrect(s) == EndsWith(s, TokCorrect) /\ ~EndsWith(s, TokIncorrect)

\* C14: a judge response increases the correct count only if, lower-cased
\* and without its trailing '.', '!' and '?', it ends with the token
\* "correct" that is not the tail of "incorrect"; otherwise the count stays.
VerdictIsFailSafe ==
  [][JudgeAnswered =>
       LET cleaned == DropPunctuationRun(Strip(Lower(result.content)))
       IN /\ correct_count' \in {correct_count, correct_count + 1}
          /\ correct_count' = correct_count + 1 => EndsWithCorrect(cleaned)
          /\ ~EndsWithCorrect(cleaned) => correct_count' = correct_count]_vars

\* C15 as stated: every round, the final one included, leaves its record
\* in the history.
EveryRoundRecorded ==
  pc \in {"for_iteration", "done"} => Len(prompt_history) = iteration

\* C15 amended: after its evaluation every round but the final one appends
\* (prompt, accuracy); the final round appends nothing, so a finished run
\* has R-1 records.
NonFinalRoundsRecorded ==
  /\ [][pc = "if_not_last" =>
          prompt_history' =
            IF iteration < NUM_ITERATIONS - 1
            THEN Append(prompt_history, <<current_prompt, accuracy>>)
            ELSE prompt_history]_vars
  /\ [](pc = "done" => Len(prompt_history) = NUM_ITERATIONS - 1)

\* A finished run: R rounds evaluated, R-1 of them recorded.
FinishedWithFinalRoundUnrecorded ==
  /\ pc = "done"
  /\ Len(rounds) = NUM_ITERATIONS
  /\ Len(prompt_history) = NUM_ITERATIONS - 1

\* C16: the invocations of make_api_call never exceed R x (T + T + 1).
CallsWithinBudget ==
  completionCalls <= NUM_ITERATIONS * (NUM_TRIALS + NUM_TRIALS + 1)

\* A finished run in which every answer was judged: all calls but the
\* mutation of the final round were made.
FinishedWithMostCalls ==
  /\ pc = "done"
  /\ completionCalls = NUM_ITERATIONS * (NUM_TRIALS + NUM_TRIALS + 1) - 1

\* C17: from the first trial of a round to the end of its evaluation and
\* of its mutation call all trials have used the one current prompt, and a
\* step changes the current prompt only when it takes the text returned by
\* the mutator, at the end of the round.
PromptFixedWithinRound ==
  /\ [](pc # "for_iteration" =>
          /\ trialPrompts \subseteq {current_prompt}
          /\ issued # {} => trialPrompts = {current_prompt})
  /\ [][current_prompt' # current_prompt =>
          /\ MutatorAnswered
          /\ pc' = "for_iteration"
          /\ iteration' = iteration + 1]_vars

\* An evaluation has ended for a round sampled under an improved prompt.
EvaluatedUnderImprovedPrompt ==
  /\ pc = "if_not_last"
  /\ issued = 1..NUM_TRIALS
  /\ current_prompt # InitialPrompt
  /\ trialPrompts = {current_prompt}

\* C18: a call makes at most max_retries attempts and sleeps at most
\* max_retries - 1 times; when it returns or raises it has slept once less
\* than it has attempted.
RetryBudgetRespected ==
  /\ Len(call.outcomes) <= max_retries
  /\ call.sleeps <= max_retries - 1
  /\ pc = "return" => call.sleeps = Len(call.outcomes) - 1

\* A call that raised after max_retries attempts.
RaisedAfterLastAttempt ==
  /\ pc = "return"
  /\ result.kind = "raised"
  /\ Len(call.outcomes) = max_retries
  /\ call.sleeps = max_retries - 1

\* C19: the k-th record is the prompt under which round k was sampled with
\* the accuracy of round k: its fraction of correct verdicts, or 0.0 when
\* its evaluation raised.
RecordsMatchRounds ==
  /\ Len(prompt_history) <= Len(rounds)
  /\ \A k \in 1..Len(prompt_history) :
       /\ k < NUM_ITERATIONS
       /\ rounds[k].prompts = {prompt_history[k][1]}
       /\ prompt_history[k][2] = rounds[k].accuracy

\* Two records that differ in prompt and in accuracy.
TwoDifferentRounds ==
  /\ Len(prompt_history) = 2
  /\ prompt_history[1][1] # prompt_history[2][1]
  /\ prompt_history[1][2] # prompt_history[2][2]
  /\ prompt_history[2][2] # Zero

\* C20: while the mutator runs, the history has as many records as the
\* number of the current round and ends with (current prompt, current
\* accuracy); a mutation that raises leaves that record in place.
RecordedBeforeMutation ==
  /\ [](InMutation =>
          /\ Len(prompt_history) = iteration + 1
          /\ Last(prompt_history) = <<current_prompt, accuracy>>)
  /\ [][(InMutation /\ pc = "return" /\ Raised # "none") =>
          prompt_history' = prompt_history]_vars
  /\ [](mutationFailed =>
          /\ Len(prompt_history) = iteration
          /\ Last(prompt_history) = <<current_prompt, accuracy>>)

\* A round with a positive accuracy whose mutation raised.
RecordKeptAfterFailedMutation ==
  /\ pc = "for_iteration"
  /\ mutationFailed
  /\ ~evalFailed
  /\ accuracy.num > 0
  /\ Last(prompt_history) = <<current_prompt, accuracy>>
====
